---- MODULE Spec2Model ----
(***************************************************************************)
(* State-machine model of btgym/agent/memory.py, class BTgymReplayMemory:  *)
(* an episodic replay memory held in TensorFlow variables.                 *)
(*                                                                         *)
(* One object is modelled from its constructor call on.  Python attributes *)
(* and TF variables keep their source names.  Arrays are functions over    *)
(* 0-based index ranges, as in the source; values returned to the caller   *)
(* (episode slices, batches) are 1-based TLA+ sequences.                   *)
(*                                                                         *)
(* The code never inspects a leaf value other than experience['done'], so  *)
(* every pushed experience carries a serial number that makes each of its  *)
(* leaves different from every other leaf ever pushed and from the zeros   *)
(* the variables are initialised with.                                     *)
(***************************************************************************)
EXTENDS Integers, Sequences, FiniteSets, TLC

\* ---------------------------------------------------------------- bounds
\* Largest max_episode_length passed to the constructor.
MaxLen == 2
\* Largest number of whole episodes the max_size passed to the constructor holds.
MaxCap == 3
\* Largest batch_size passed to the constructor.
MaxBatch == 2
\* Largest number of experiences fed in one run (the callers' loop is unbounded).
MaxSteps == 6

VARIABLES
    pc,                   \* "new": before __init__; "alive": constructed; "failed": __init__ raised
    experience_shape,     \* self.experience_shape: the top-level keys of the schema
    max_episode_length,   \* self.max_episode_length
    batch_size,           \* self.batch_size
    memory_shape,         \* self.memory_shape: <<episodes, steps>>
    local_step,           \* self.local_step
    episode,              \* self.episode
    current_mem_size,     \* self.current_mem_size (Python-side copy)
    current_mem_pointer,  \* self.current_mem_pointer (Python-side copy)
    _mem_current_size,    \* tf.Variable 'current_size'
    _mem_cyclic_pointer,  \* tf.Variable 'cyclic_pointer'
    _batch_indices,       \* tf.Variable 'batch_experience_indices'
    memory,               \* self.memory: leaf -> [episode -> [step -> value]], plus episode_length
    buffer,               \* self.buffer: leaf -> [step -> value]
    fed,                  \* history: the number of experiences written to the buffer so far
    pushed,               \* history: the experiences fed since the last commit, in order
    committed,            \* history: per slot, the experiences of the episode last committed to it
    commits,              \* history: the number of _add_episode calls made so far
    sampler,              \* a sample_random_batch call run step by step: its position and locals
    ret                   \* the last public call: its name, argument, outcome and returned value

vars == <<pc, experience_shape, max_episode_length, batch_size, memory_shape,
          local_step, episode, current_mem_size, current_mem_pointer,
          _mem_current_size, _mem_cyclic_pointer, _batch_indices, memory,
          buffer, fed, pushed, committed, commits, sampler, ret>>

\* what __init__ leaves behind besides the cursor and the TF variables
config == <<experience_shape, max_episode_length, batch_size, memory_shape>>

\* the committed store and its bookkeeping
store == <<episode, current_mem_pointer, _mem_current_size,
           _mem_cyclic_pointer, memory, committed, commits>>

\* An attribute or variable that does not exist (yet).
None == "None"

\* ------------------------------------------------------------------ schema
\* An end-level record of experience_shape: a tuple of dims and a dtype.
\* A tf.Variable built from it is the same record with its value under `var`.
Leaf(dtype) == [dtype |-> dtype]

\* type(record) == dict: a nested dictionary, not an end-level record/variable.
IsDict(record) == "dtype" \notin DOMAIN record

mandatory_keys == {"state_next", "action", "reward", "done"}

\* The schemas given to the constructor: any subset of the mandatory keys at
\* top level; `done` is declared tf.bool, the rest default to tf.float32;
\* state_next is either an end-level record or a dictionary with one leaf.
Schema(keys, nested) ==
    [key \in keys |->
        IF key = "state_next" /\ nested THEN [external |-> Leaf("float32")]
        ELSE Leaf(IF key = "done" THEN "bool" ELSE "float32")]

Schemas == {Schema(keys, nested) : keys \in SUBSET mandatory_keys, nested \in BOOLEAN}

\* ------------------------------------------------------------ construction
\* int(x / y) of line 88: true division, then truncation toward zero.
IntTrunc(x, y) ==
    IF (x >= 0) = (y > 0) THEN (IF x >= 0 THEN x ELSE -x) \div (IF y > 0 THEN y ELSE -y)
    ELSE -((IF x >= 0 THEN x ELSE -x) \div (IF y > 0 THEN y ELSE -y))

\* self.memory_shape = (int(max_size / max_episode_length), self.max_episode_length)
MemoryShape(max_size, length) == <<IntTrunc(max_size, length), length>>

\* tf.zeros(dims, dtype), dims being <<steps>> or <<episodes, steps>>.
Zeros(dims, dtype) ==
    IF Len(dims) = 2
    THEN [e \in 0 .. dims[1] - 1 |->
            [s \in 0 .. dims[2] - 1 |-> IF dtype = "bool" THEN FALSE ELSE 0]]
    ELSE [s \in 0 .. dims[1] - 1 |-> IF dtype = "bool" THEN FALSE ELSE 0]

\* _var_constructor: a zero-filled variable per leaf, nested like the schema.
RECURSIVE _var_constructor(_, _)
_var_constructor(shape_dict, dims) ==
    [key \in DOMAIN shape_dict |->
        IF IsDict(shape_dict[key]) THEN _var_constructor(shape_dict[key], dims)
        ELSE [dtype |-> shape_dict[key].dtype, var |-> Zeros(dims, shape_dict[key].dtype)]]

\* _global_variable_constructor, lines 144-155: self.memory is the leaves plus
\* the top-level episode_length, a vector of ones.
MemoryVariables(shape_dict, dims) ==
    [key \in DOMAIN shape_dict \cup {"episode_length"} |->
        IF key = "episode_length"
        THEN [dtype |-> "int32", var |-> [e \in 0 .. dims[1] - 1 |-> 1]]
        ELSE _var_constructor(shape_dict, dims)[key]]

\* What __init__ raises, "ok" when it returns: the mandatory-key check, the
\* size check, then the graph construction, where _get_sars_batch_op_constructor
\* calls .items() on self.memory['state_next'] (line 509 -> 428), which only a
\* dictionary has.
InitCheck(shape_dict, dims) ==
    IF \E key \in mandatory_keys : key \notin DOMAIN shape_dict THEN "ValueError"
    ELSE IF ~(dims[1] > 0) THEN "ValueError"
    ELSE IF ~IsDict(shape_dict["state_next"]) THEN "AttributeError"
    ELSE "ok"

\* The record of a public call, with the cursor as it was when it was made.
Call(op, arg, status, value) ==
    [op |-> op, arg |-> arg, status |-> status, value |-> value,
     pre |-> [local_step |-> local_step, pointer |-> _mem_cyclic_pointer,
              size |-> _mem_current_size]]

Init ==
    /\ pc = "new"
    /\ experience_shape = None
    /\ max_episode_length = None
    /\ batch_size = None
    /\ memory_shape = None
    /\ local_step = None
    /\ episode = None
    /\ current_mem_size = None
    /\ current_mem_pointer = None
    /\ _mem_current_size = None
    /\ _mem_cyclic_pointer = None
    /\ _batch_indices = None
    /\ memory = None
    /\ buffer = None
    /\ fed = None
    /\ pushed = None
    /\ committed = None
    /\ commits = None
    /\ sampler = None
    /\ ret = [op |-> "none", arg |-> None, status |-> None, value |-> None, pre |-> None]

\* BTgymReplayMemory.__init__.  When it raises, the caller gets no object:
\* every attribute stays None.
Constructor(shape_dict, length, max_size, batch) ==
    /\ pc = "new"
    /\ ret' = Call("__init__",
                   [experience_shape |-> shape_dict, max_episode_length |-> length,
                    max_size |-> max_size, batch_size |-> batch],
                   InitCheck(shape_dict, MemoryShape(max_size, length)), None)
    /\ IF InitCheck(shape_dict, MemoryShape(max_size, length)) # "ok"
       THEN /\ pc' = "failed"
            /\ UNCHANGED <<config, local_step, current_mem_size, store,
                           _batch_indices, buffer, fed, pushed, sampler>>
       ELSE /\ pc' = "alive"
            /\ experience_shape' = shape_dict
            /\ max_episode_length' = length
            /\ batch_size' = batch
            /\ memory_shape' = MemoryShape(max_size, length)
            /\ local_step' = 0
            /\ episode' = 0
            /\ current_mem_size' = 0
            /\ current_mem_pointer' = -1
            /\ _mem_current_size' = 0
            /\ _mem_cyclic_pointer' = 0
            /\ _batch_indices' = [i \in 1 .. batch |-> <<0, 0>>]
            /\ memory' = MemoryVariables(shape_dict, MemoryShape(max_size, length))
            /\ buffer' = _var_constructor(shape_dict, <<length>>)
            /\ fed' = 0
            /\ pushed' = <<>>
            /\ committed' = [e \in 0 .. MemoryShape(max_size, length)[1] - 1 |-> <<>>]
            /\ commits' = 0
            /\ sampler' = [at |-> "idle"]

\* The constructor calls made: max_size ranges over every number of
\* experiences from 1 up to MaxCap whole episodes and a part of one more.
Construct ==
    \E shape_dict \in Schemas, length \in 1 .. MaxLen, batch \in 1 .. MaxBatch :
        \E max_size \in 1 .. MaxCap * length + length - 1 :
            Constructor(shape_dict, length, max_size, batch)

\* ------------------------------------------------------------------ ingest
\* The experience with serial number v, shaped like the schemas that build:
\* every leaf differs from every leaf of every other experience and from the
\* initial zeros.
Experience(v, done) ==
    [action |-> v, reward |-> -v, done |-> done, state_next |-> [external |-> 100 + v]]

\* The serial number of the next experience fed.
Serial == fed + 1

\* A scalar index into a dimension of `size` entries, as strided-slice resolves
\* it: a negative index counts from the end; -1 when it is out of bounds (the
\* backend raises InvalidArgumentError there).
Resolve(index, size) ==
    IF 0 <= index /\ index < size THEN index
    ELSE IF -size <= index /\ index < 0 THEN index + size
    ELSE -1

\* _feed_buffer_op_constructor: tf.assign(var[step_pl, ...], pl_dict[key]) per leaf.
RECURSIVE _add_experience_op(_, _, _)
_add_experience_op(var_dict, value_dict, step) ==
    [key \in DOMAIN var_dict |->
        IF IsDict(var_dict[key])
        THEN _add_experience_op(var_dict[key], value_dict[key], step)
        ELSE [var_dict[key] EXCEPT !.var[step] = value_dict[key]]]

\* _save_episode_op writing the first slot whatever the position.
RECURSIVE _save_episode_op_First(_, _, _, _)
_save_episode_op_First(memory_dict, buffer_dict, position, length) ==
    [key \in DOMAIN memory_dict |->
        IF IsDict(memory_dict[key])
        THEN _save_episode_op_First(memory_dict[key], buffer_dict[key], position, length)
        ELSE IF key = "episode_length"
        THEN [memory_dict[key] EXCEPT !.var[position] = length]
        ELSE [memory_dict[key] EXCEPT !.var[0] = buffer_dict[key].var]]

\* _save_episode_op writing the second slot as well as the one at the position.
RECURSIVE _save_episode_op_Second(_, _, _, _)
_save_episode_op_Second(memory_dict, buffer_dict, position, length) ==
    [key \in DOMAIN memory_dict |->
        IF IsDict(memory_dict[key])
        THEN _save_episode_op_Second(memory_dict[key], buffer_dict[key], position, length)
        ELSE IF key = "episode_length"
        THEN [memory_dict[key] EXCEPT !.var[position] = length]
        ELSE [memory_dict[key] EXCEPT
                 !.var[position] = buffer_dict[key].var,
                 !.var[IF memory_shape[1] >= 2 THEN 1 ELSE 0] = buffer_dict[key].var]]

\* _feed_episode_op_constructor: per leaf tf.assign(var[position, ...], buffer[key]),
\* the whole buffer variable; episode_length[position] receives the fed length.
RECURSIVE _save_episode_op(_, _, _, _)
_save_episode_op(memory_dict, buffer_dict, position, length) ==
    [key \in DOMAIN memory_dict |->
        IF IsDict(memory_dict[key])
        THEN _save_episode_op(memory_dict[key], buffer_dict[key], position, length)
        ELSE IF key = "episode_length"
        THEN [memory_dict[key] EXCEPT !.var[position] = length]
        ELSE [memory_dict[key] EXCEPT !.var[position] = buffer_dict[key].var]]

\* IncrementSize without the test against the memory size.
IncrementSize_Unchecked(size) ==
    size + 1

\* IncrementSize growing up to the memory size itself.
IncrementSize_Full(size) ==
    IF size < memory_shape[1] THEN size + 1 ELSE size

\* IncrementSize stopping one episode early.
IncrementSize_Early(size) ==
    IF size < memory_shape[1] - 2 THEN size + 1 ELSE size

\* _add_episode, lines 704-708: the used size after one more episode.
IncrementSize(size) ==
    IF size < memory_shape[1] - 1 THEN size + 1 ELSE size

\* MovePointer rewinding one episode late.
MovePointer_Late(pointer, size) ==
    IF pointer > size THEN 0 ELSE pointer + 1

\* MovePointer rewinding one episode early.
MovePointer_Early(pointer, size) ==
    IF pointer >= size - 1 THEN 0 ELSE pointer + 1

\* _add_episode, lines 710-718: the cyclic pointer after one more episode,
\* `size` being the used size already incremented.
MovePointer(pointer, size) ==
    IF pointer >= size THEN 0 ELSE pointer + 1

\* FedLength counting one row too many.
FedLength_Over(step) ==
    step + 2

\* _add_episode, line 691: the length fed to _save_episode_op, the rows
\* 0 .. local_step of the buffer.
FedLength(step) ==
    step + 1

\* _add_experience, line 678: whether the call stores the episode.
EpisodeOver(done, step) ==
    done \/ step >= memory_shape[2]

\* _add_episode leaving the episode counter as it is.
_add_episode_Uncounted(buffer_dict, experiences) ==
    /\ memory' = _save_episode_op(memory, buffer_dict, _mem_cyclic_pointer, FedLength(local_step))
    /\ local_step' = 0
    /\ episode' = episode
    /\ current_mem_size' = IncrementSize(_mem_current_size)
    /\ _mem_current_size' = IncrementSize(_mem_current_size)
    /\ current_mem_pointer' = MovePointer(_mem_cyclic_pointer, IncrementSize(_mem_current_size))
    /\ _mem_cyclic_pointer' = MovePointer(_mem_cyclic_pointer, IncrementSize(_mem_current_size))
    /\ committed' = [committed EXCEPT ![_mem_cyclic_pointer] = experiences]
    /\ commits' = commits + 1
    /\ pushed' = <<>>

\* _add_episode: save the buffer at the cyclic pointer, reset local_step, count
\* the episode, then move used size and pointer.  buffer_dict is the buffer
\* with the experience of this call already in it.
_add_episode(buffer_dict, experiences) ==
    /\ memory' = _save_episode_op(memory, buffer_dict, _mem_cyclic_pointer, FedLength(local_step))
    /\ local_step' = 0
    /\ episode' = episode + 1
    /\ current_mem_size' = IncrementSize(_mem_current_size)
    /\ _mem_current_size' = IncrementSize(_mem_current_size)
    /\ current_mem_pointer' = MovePointer(_mem_cyclic_pointer, IncrementSize(_mem_current_size))
    /\ _mem_cyclic_pointer' = MovePointer(_mem_cyclic_pointer, IncrementSize(_mem_current_size))
    /\ committed' = [committed EXCEPT ![_mem_cyclic_pointer] = experiences]
    /\ commits' = commits + 1
    /\ pushed' = <<>>

\* _add_experience (and update, its alias).  Feeding row local_step of the
\* buffer raises in the backend when local_step is not a row of it; nothing
\* is written then and the exception leaves the method.
_add_experience(experience) ==
    /\ pc = "alive"
    /\ IF Resolve(local_step, max_episode_length) = -1
       THEN /\ ret' = Call("add_experience", experience, "InvalidArgumentError", None)
            /\ UNCHANGED <<local_step, current_mem_size, store, buffer, fed, pushed>>
       ELSE /\ fed < MaxSteps
            /\ fed' = fed + 1
            /\ buffer' = _add_experience_op(buffer, experience, local_step)
            /\ IF EpisodeOver(experience.done, local_step)
               THEN /\ _add_episode(buffer', Append(pushed, experience))
                    /\ ret' = Call("add_experience", experience, "ok", "episode")
               ELSE /\ local_step' = local_step + 1
                    /\ pushed' = Append(pushed, experience)
                    /\ ret' = Call("add_experience", experience, "ok", None)
                    /\ UNCHANGED <<current_mem_size, store>>
    /\ UNCHANGED <<pc, config, _batch_indices, sampler>>

AddExperience ==
    \E done \in BOOLEAN : _add_experience(Experience(Serial, done))

\* ----------------------------------------------------------- point queries
\* Rows with the slice ending one row early.
Rows_Short(row, length) ==
    [i \in 1 .. length - 1 |-> row[i - 1]]

\* var[position, 0:length, ...] as a sequence; a slice end past the last row
\* is clipped to it.
Rows(row, length) ==
    [i \in 1 .. (IF length < Cardinality(DOMAIN row) THEN length ELSE Cardinality(DOMAIN row))
        |-> row[i - 1]]

\* _get_episode_op_constructor: per leaf the rows 0:episode_length of the
\* slot; the episode_length leaf itself unsliced.
RECURSIVE _get_episode_op(_, _, _)
_get_episode_op(memory_dict, position, episode_length) ==
    [key \in DOMAIN memory_dict |->
        IF IsDict(memory_dict[key])
        THEN _get_episode_op(memory_dict[key], position, episode_length)
        ELSE IF key # "episode_length"
        THEN Rows(memory_dict[key].var[position], episode_length)
        ELSE memory_dict[key].var[position]]

\* get_episode, line 728: the only check made on the episode number.
EpisodeNumberAccepted(episode_number) ==
    episode_number <= _mem_current_size

\* get_episode: the check, then the slicing ops fed with the episode number.
get_episode(episode_number) ==
    IF ~EpisodeNumberAccepted(episode_number)
    THEN [status |-> "ValueError", value |-> None]
    ELSE IF Resolve(episode_number, memory_shape[1]) = -1
    THEN [status |-> "InvalidArgumentError", value |-> None]
    ELSE [status |-> "ok",
          value |-> _get_episode_op(
                        memory, Resolve(episode_number, memory_shape[1]),
                        memory["episode_length"].var[Resolve(episode_number, memory_shape[1])])]

GetEpisode ==
    /\ pc = "alive"
    /\ \E episode_number \in -(memory_shape[1] + 1) .. memory_shape[1] + 1 :
        /\ LET got == get_episode(episode_number)
           IN  ret' = Call("get_episode", episode_number, got.status, got.value)
        /\ UNCHANGED <<pc, config, local_step, current_mem_size, store,
                       _batch_indices, buffer, fed, pushed, sampler>>

\* ---------------------------------------------------------------- sampling
\* EpisodeDraws with maxval taken as inclusive.
EpisodeDraws_Wide == 1 .. _mem_current_size

\* EpisodeDraws with minval 0.
EpisodeDraws_FromZero == 0 .. _mem_current_size - 1

\* tf.random_uniform(minval=1, maxval=_mem_current_size, dtype=tf.int32): the
\* values one draw can take; the op raises InvalidArgumentError when
\* minval >= maxval.
EpisodeDraws == 1 .. _mem_current_size - 1

\* cast(cast(length - 1, float32) * U, int32) + 1 for U in [0, 1): the values
\* one draw can take.  The product stays below length - 1 when that is
\* positive, and is 0 or in (-1, 0] otherwise; the cast truncates toward zero.
StepDraws(length) ==
    IF length - 1 > 0 THEN {k + 1 : k \in 0 .. length - 2} ELSE {1}

\* _sample_indices_batch_op_constructor: the index batches one run can leave
\* in _batch_indices (and return): per row an episode number, then a step
\* drawn from that episode's stored length.
_sample_batch_indices_op ==
    [1 .. batch_size ->
        UNION {{<<e, s>> : s \in StepDraws(memory["episode_length"].var[e])} :
                    e \in EpisodeDraws}]

\* Whether every index pair addresses an element of a [episodes, steps] variable.
InBounds(batch_indices) ==
    \A i \in DOMAIN batch_indices :
        /\ 0 <= batch_indices[i][1] /\ batch_indices[i][1] < memory_shape[1]
        /\ 0 <= batch_indices[i][2] /\ batch_indices[i][2] < memory_shape[2]

\* tf.gather_nd(variable, batch_indices).  An index pair out of bounds yields
\* zero here (the GPU kernel); the CPU kernel raises, see sample_random_batch.
GatherNd(variable, batch_indices) ==
    [i \in DOMAIN batch_indices |->
        IF InBounds(<<batch_indices[i]>>)
        THEN variable.var[batch_indices[i][1]][batch_indices[i][2]]
        ELSE IF variable.dtype = "bool" THEN FALSE ELSE 0]

\* _get_experience_batch_op_constructor: gather every leaf but episode_length.
RECURSIVE _get_experience_batch_op(_, _)
_get_experience_batch_op(memory_dict, batch_indices) ==
    [key \in DOMAIN memory_dict \ {"episode_length"} |->
        IF IsDict(memory_dict[key])
        THEN _get_experience_batch_op(memory_dict[key], batch_indices)
        ELSE GatherNd(memory_dict[key], batch_indices)]

\* batch_indices_previous: tf.subtract(batch_indices, previous_mask).
PreviousIndices(batch_indices) ==
    [i \in DOMAIN batch_indices |-> <<batch_indices[i][1], batch_indices[i][2] - 1>>]

\* _get_sars_batch_op_constructor: the -A,R,S' part gathered at the indices,
\* plus `state`, the state_next subtree gathered one step earlier.
_get_sampled_sars_batch_op(batch_indices) ==
    [key \in (DOMAIN memory \ {"episode_length"}) \cup {"state"} |->
        IF key = "state"
        THEN _get_experience_batch_op(memory["state_next"], PreviousIndices(batch_indices))
        ELSE _get_experience_batch_op(memory, batch_indices)[key]]

\* _get_current_size reading the cyclic pointer instead.
_get_current_size_Pointer == _mem_cyclic_pointer

\* _get_current_size: sess.run(self._mem_current_size).
_get_current_size == _mem_current_size

\* BatchSizeAccepted with a strict comparison.
BatchSizeAccepted_Strict == batch_size < _mem_current_size

\* sample_random_batch, lines 756-763: the only check made before sampling.
BatchSizeAccepted == batch_size <= _mem_current_size

\* sample_random_batch: read the used size, check it against batch_size, run
\* the sampling op (which stores the indices), then the gather op on the
\* stored indices.
sample_random_batch ==
    /\ pc = "alive"
    /\ current_mem_size' = _get_current_size
    /\ IF ~BatchSizeAccepted
       THEN /\ ret' = Call("sample_random_batch", None, "AssertionError", None)
            /\ UNCHANGED _batch_indices
       ELSE IF EpisodeDraws = {}
       THEN /\ ret' = Call("sample_random_batch", None, "InvalidArgumentError", None)
            /\ UNCHANGED _batch_indices
       ELSE \E idx \in _sample_batch_indices_op :
            /\ _batch_indices' = idx
            /\ \/ /\ InBounds(idx) /\ InBounds(PreviousIndices(idx))
                  /\ ret' = Call("sample_random_batch", None, "ok",
                                 [idx |-> idx, output_feeder |-> _get_sampled_sars_batch_op(idx)])
               \/ /\ ~(InBounds(idx) /\ InBounds(PreviousIndices(idx)))
                  /\ \/ ret' = Call("sample_random_batch", None, "InvalidArgumentError", None)
                     \/ ret' = Call("sample_random_batch", None, "ok",
                                    [idx |-> idx, output_feeder |-> _get_sampled_sars_batch_op(idx)])
    /\ UNCHANGED <<pc, config, local_step, store, buffer, fed, pushed, sampler>>

Next ==
    \/ Construct
    \/ AddExperience
    \/ GetEpisode
    \/ sample_random_batch

Spec == Init /\ [][Next]_vars

\* ------------------------------------------- sampling beside a writer thread
\* sample_random_batch takes no lock and makes two sess.run calls; a thread
\* feeding experiences through the same session can run between them.  Each
\* sess.run, and each add_experience call of the writer, is one step.

\* sample_random_batch, lines 754-764: read the used size, check it, run the
\* sampling op.  When the op has run the call stands before line 767 with its
\* local idx; beside it the record keeps, as history, what the store held when
\* the indices were drawn.
SampleIndices ==
    /\ pc = "alive"
    /\ sampler.at # "sampled"
    /\ current_mem_size' = _get_current_size
    /\ IF ~BatchSizeAccepted
       THEN /\ ret' = Call("sample_random_batch", None, "AssertionError", None)
            /\ sampler' = [at |-> "idle"]
            /\ UNCHANGED _batch_indices
       ELSE IF EpisodeDraws = {}
       THEN /\ ret' = Call("sample_random_batch", None, "InvalidArgumentError", None)
            /\ sampler' = [at |-> "idle"]
            /\ UNCHANGED _batch_indices
       ELSE \E idx \in _sample_batch_indices_op :
            /\ _batch_indices' = idx
            /\ sampler' = [at |-> "sampled", idx |-> idx,
                           output_feeder |-> _get_sampled_sars_batch_op(idx),
                           episode_length |-> memory["episode_length"].var,
                           committed |-> committed, fed |-> fed]
            /\ UNCHANGED ret
    /\ UNCHANGED <<pc, config, local_step, store, buffer, fed, pushed>>

\* sample_random_batch, lines 767-769: run the gather op on the batch-indices
\* variable and return the local idx with what was gathered.
GatherSars ==
    /\ pc = "alive"
    /\ sampler.at = "sampled"
    /\ sampler' = [sampler EXCEPT !.at = "returned"]
    /\ \/ /\ InBounds(_batch_indices) /\ InBounds(PreviousIndices(_batch_indices))
          /\ ret' = Call("sample_random_batch", None, "ok",
                         [idx |-> sampler.idx,
                          output_feeder |-> _get_sampled_sars_batch_op(_batch_indices)])
       \/ /\ ~(InBounds(_batch_indices) /\ InBounds(PreviousIndices(_batch_indices)))
          /\ \/ ret' = Call("sample_random_batch", None, "InvalidArgumentError", None)
             \/ ret' = Call("sample_random_batch", None, "ok",
                            [idx |-> sampler.idx,
                             output_feeder |-> _get_sampled_sars_batch_op(_batch_indices)])
    /\ UNCHANGED <<pc, config, local_step, current_mem_size, store, _batch_indices,
                   buffer, fed, pushed>>

NextThreaded ==
    \/ Construct
    \/ AddExperience
    \/ SampleIndices
    \/ GatherSars

SpecThreaded == Init /\ [][NextThreaded]_vars

\* ================================================================= claims
Alive == pc = "alive"

Sampled == Alive /\ ret.op = "sample_random_batch" /\ ret.status = "ok"

Committed == Alive /\ ret.op = "add_experience" /\ ret.status = "ok" /\ ret.value = "episode"

\* C1 (capacity bound): in every state reached by add_experience calls and the
\* commits they trigger, the used size is at most the number of episode slots
\* and the cyclic pointer is a slot number, 0 <= pointer < slots.
C1_CapacityBound ==
    Alive =>
        /\ _mem_current_size <= memory_shape[1]
        /\ 0 <= _mem_cyclic_pointer
        /\ _mem_cyclic_pointer < memory_shape[1]

\* The pointer stands on the last slot after more commits than there are slots.
C1_Witness ==
    /\ Alive
    /\ memory_shape[1] >= 2
    /\ episode > memory_shape[1]
    /\ _mem_cyclic_pointer = memory_shape[1] - 1

\* C2 (length integrity): right after the commit of an episode of N
\* add_experience calls, get_episode(p), p being the cyclic pointer before the
\* commit, succeeds and returns per leaf exactly the N values fed, in order,
\* and episode_length N.
C2_LengthIntegrity ==
    Committed =>
        LET p == ret.pre.pointer
            N == Len(committed[p])
            got == get_episode(p)
        IN  /\ 1 <= N /\ N <= max_episode_length
            /\ got.status = "ok"
            /\ got.value["episode_length"] = N
            /\ got.value["action"] = [i \in 1 .. N |-> committed[p][i].action]
            /\ got.value["reward"] = [i \in 1 .. N |-> committed[p][i].reward]
            /\ got.value["done"] = [i \in 1 .. N |-> committed[p][i].done]
            /\ got.value["state_next"] =
                   [external |-> [i \in 1 .. N |-> committed[p][i].state_next.external]]

\* An episode of at least two steps has just been committed over an older one.
C2_Witness ==
    /\ Committed
    /\ Len(committed[ret.pre.pointer]) >= 2
    /\ episode > memory_shape[1]

\* C3 as stated (wrap-around): once the used size has reached slots - 1 and
\* further episodes are committed, the cyclic pointer takes values only in
\* [0, used size).  Stated for two slots or more, where that range is not empty.
C3_Original ==
    (Alive /\ memory_shape[1] >= 2 /\ _mem_current_size = memory_shape[1] - 1
           /\ episode > memory_shape[1] - 1) =>
        (0 <= _mem_cyclic_pointer /\ _mem_cyclic_pointer < _mem_current_size)

\* C3 amended: under the same condition the cyclic pointer takes values only
\* in [0, used size], the used size included, and never exceeds it.
C3_Amended ==
    (Alive /\ _mem_current_size = memory_shape[1] - 1 /\ episode > memory_shape[1] - 1) =>
        (0 <= _mem_cyclic_pointer /\ _mem_cyclic_pointer <= _mem_current_size)

\* After the used size stopped growing, the pointer stands on slot `used size`.
C3_Witness ==
    /\ Alive
    /\ memory_shape[1] >= 2
    /\ _mem_current_size = memory_shape[1] - 1
    /\ episode > memory_shape[1] - 1
    /\ _mem_cyclic_pointer = _mem_current_size

\* C4 (sampling domain): every pair (e, s) of a batch sample_random_batch
\* returns has 1 <= e < used size and 1 <= s <= episode_length[e] - 1.
\* Stated for max_episode_length >= 2, where every drawn pair addresses a row
\* of the store and the call returns whatever kernel gathers.
C4_SamplingDomain ==
    (Sampled /\ max_episode_length >= 2) =>
        \A i \in DOMAIN ret.value.idx :
            LET e == ret.value.idx[i][1]
                s == ret.value.idx[i][2]
            IN  /\ 1 <= e /\ e < _mem_current_size
                /\ 1 <= s /\ s <= memory["episode_length"].var[e] - 1

\* C5 (SARS consistency): for every pair (e, s) of a returned batch, `state` is
\* the state_next fed as step s-1 of the episode now committed in slot e, and
\* action, reward, done and state_next are the values fed as step s of it.
\* Stated for max_episode_length >= 2, as C4.
C5_SarsConsistency ==
    (Sampled /\ max_episode_length >= 2) =>
        \A i \in DOMAIN ret.value.idx :
            LET e == ret.value.idx[i][1]
                s == ret.value.idx[i][2]
                out == ret.value.output_feeder
            IN  /\ 1 <= s /\ s + 1 <= Len(committed[e])
                /\ out["state"].external[i] = committed[e][s].state_next.external
                /\ out["action"][i] = committed[e][s + 1].action
                /\ out["reward"][i] = committed[e][s + 1].reward
                /\ out["done"][i] = committed[e][s + 1].done
                /\ out["state_next"].external[i] = committed[e][s + 1].state_next.external

\* C6 (sampling precondition): sample_random_batch raises the memory's own
\* sampling error (the AssertionError of line 760) whenever batch_size exceeds
\* the used size or the used size is below 2.
C6_SamplingPrecondition ==
    (Alive /\ ret.op = "sample_random_batch"
           /\ (batch_size > ret.pre.size \/ ret.pre.size < 2)) =>
        ret.status = "AssertionError"

\* C7 (get_episode bounds): get_episode(index) succeeds for every index with
\* 0 <= index <= used size and raises the index error (the ValueError of line
\* 731) for every other index, negative ones included.
C7_GetEpisodeBounds ==
    (Alive /\ ret.op = "get_episode") =>
        IF 0 <= ret.arg /\ ret.arg <= ret.pre.size
        THEN ret.status = "ok"
        ELSE ret.status = "ValueError"

\* C8 (truncation commit): an add_experience call with done false made while
\* local_step + 1 = max_episode_length commits the staged episode with length
\* max_episode_length and resets local_step to 0.
C8_TruncationCommit ==
    (Alive /\ ret.op = "add_experience" /\ ~ret.arg.done
           /\ ret.pre.local_step + 1 = max_episode_length) =>
        /\ ret.status = "ok"
        /\ ret.value = "episode"
        /\ local_step = 0
        /\ memory["episode_length"].var[ret.pre.pointer] = max_episode_length

\* Every slot holds a committed episode of at least two steps.
FullOfLongEpisodes ==
    /\ episode >= memory_shape[1]
    /\ \A e \in DOMAIN committed : Len(committed[e]) >= 2

\* C9 as stated (sampling becomes possible): whatever the construction, once
\* sufficiently many episodes of length >= 2 are committed sample_random_batch
\* succeeds.  "Sufficiently many" is taken as one per slot: from slots - 1
\* commits on IncrementSize leaves the used size as it is, so a call that fails
\* then fails after any number of further commits.
C9_Original ==
    (Alive /\ ret.op = "sample_random_batch" /\ FullOfLongEpisodes) =>
        ret.status = "ok"

\* C9 amended: for the constructions with batch_size <= slots - 1, slots >= 3
\* and max_episode_length >= 2, sample_random_batch succeeds once slots - 1
\* episodes are committed; for every other construction (batch_size >= slots,
\* or slots <= 2) it never succeeds.
C9_Amended ==
    (Alive /\ ret.op = "sample_random_batch") =>
        IF batch_size <= memory_shape[1] - 1 /\ memory_shape[1] >= 3
        THEN (episode >= memory_shape[1] - 1 /\ max_episode_length >= 2) => ret.status = "ok"
        ELSE ret.status # "ok"

\* A batch as wide as the largest used size is sampled once the memory is full.
C9_Witness ==
    /\ Sampled
    /\ batch_size >= 2
    /\ batch_size = memory_shape[1] - 1
    /\ episode >= memory_shape[1] - 1

\* C10 (construction validity): the constructor returns exactly when the four
\* mandatory keys are at the top level of the schema and
\* floor(max_size / max_episode_length) >= 1; otherwise it raises and leaves
\* no cursor and no store.
C10_ConstructionValidity ==
    ret.op = "__init__" =>
        /\ (ret.status = "ok") <=>
               /\ mandatory_keys \subseteq DOMAIN ret.arg.experience_shape
               /\ ret.arg.max_size \div ret.arg.max_episode_length >= 1
        /\ ret.status # "ok" =>
               /\ pc = "failed"
               /\ local_step = None /\ episode = None
               /\ _mem_current_size = None /\ _mem_cyclic_pointer = None
               /\ memory = None /\ buffer = None

\* The slots, and the slots some commit has written.
Slots == 0 .. memory_shape[1] - 1

WrittenSlots == {e \in Slots : committed[e] # <<>>}

Min(a, b) == IF a <= b THEN a ELSE b

\* The serial number of the last experience of the episode committed in slot e.
LastSerial(e) == committed[e][Len(committed[e])].action

\* The leaf variables of a dictionary shaped like the store or the buffer.
Leaves(dict) ==
    <<dict["action"].var, dict["reward"].var, dict["done"].var,
      dict["state_next"]["external"].var>>

\* A step in which _add_episode runs.
CommitStep == pc = "alive" /\ commits' = commits + 1

\* C11 (episode_length range): in every reachable state every entry of
\* episode_length, written by a commit or not yet, lies in [0, max_episode_length].
C11_EpisodeLengthRange ==
    Alive =>
        \A e \in Slots :
            /\ 0 <= memory["episode_length"].var[e]
            /\ memory["episode_length"].var[e] <= max_episode_length

\* One slot holds an episode of the full length, another was never written.
C11_Witness ==
    /\ Alive
    /\ max_episode_length >= 2
    /\ \E e \in WrittenSlots : memory["episode_length"].var[e] = max_episode_length
    /\ WrittenSlots # Slots

\* C12 as stated (used size meaning): in every reachable state the used size
\* equals the number of slots that were the target of at least one commit.
\* Stated for two slots or more.
C12_Original ==
    (Alive /\ memory_shape[1] >= 2) =>
        _mem_current_size = Cardinality(WrittenSlots)

\* C12 amended: the used size equals the number of slots written by a commit
\* as long as one slot at least is unwritten, and stays at slots - 1 when the
\* last slot is written: used size = min(written slots, slots - 1).
C12_Amended ==
    Alive =>
        _mem_current_size = Min(Cardinality(WrittenSlots), memory_shape[1] - 1)

\* Every slot was written and the used size is one less than their number.
C12_Witness ==
    /\ Alive
    /\ memory_shape[1] >= 2
    /\ WrittenSlots = Slots
    /\ _mem_current_size = memory_shape[1] - 1

\* C13 (cyclic eviction order): the k-th commit writes slot (k - 1) mod slots,
\* the next one will write slot k mod slots, and once every slot was written
\* the slot the next commit overwrites is the one written least recently.
C13_CyclicOrder ==
    Alive =>
        /\ _mem_cyclic_pointer = commits % memory_shape[1]
        /\ Committed => ret.pre.pointer = (commits - 1) % memory_shape[1]
        /\ commits >= memory_shape[1] =>
               \A e \in Slots : LastSerial(_mem_cyclic_pointer) <= LastSerial(e)

\* A commit has just overwritten the second slot on the second round.
C13_Witness ==
    /\ Committed
    /\ memory_shape[1] >= 2
    /\ commits = memory_shape[1] + 2
    /\ ret.pre.pointer = 1

\* C14 (used size growth): after k commits the used size is min(k, slots - 1);
\* no add_experience call lowers it, it never reaches the number of slots, and
\* with two slots or more the first commit moves the used size from 0 to 1 and
\* the cyclic pointer from 0 to 1.
C14_UsedSizeGrowth ==
    Alive =>
        /\ _mem_current_size = Min(commits, memory_shape[1] - 1)
        /\ _mem_current_size < memory_shape[1]
        /\ ret.op = "add_experience" => ret.pre.size <= _mem_current_size
        /\ (Committed /\ commits = 1 /\ memory_shape[1] >= 2) =>
               /\ ret.pre.size = 0 /\ _mem_current_size = 1
               /\ ret.pre.pointer = 0 /\ _mem_cyclic_pointer = 1

\* Two commits more than there are slots, three slots.
C14_Witness ==
    /\ Alive
    /\ memory_shape[1] = 3
    /\ commits = 5
    /\ _mem_current_size = 2

\* C15 as stated (commit frame): a commit of `length` experiences changes the
\* store only in rows [0, length) of the slot at the cyclic pointer and in its
\* episode_length entry; rows at index >= length of that slot, every other
\* slot and every other episode_length entry keep their values.
C15_Original ==
    [][CommitStep =>
        LET p == _mem_cyclic_pointer
            length == memory'["episode_length"].var[p]
        IN  /\ \A e \in Slots \ {p} :
                   memory'["episode_length"].var[e] = memory["episode_length"].var[e]
            /\ \A i \in 1 .. 4, e \in Slots, s \in 0 .. memory_shape[2] - 1 :
                   (e # p \/ s >= length) =>
                       Leaves(memory')[i][e][s] = Leaves(memory)[i][e][s]]_vars

\* C15 amended: a commit changes the store only in the slot at the cyclic
\* pointer and in its episode_length entry; every row of that slot receives
\* the row of the buffer, the rows at index >= length included, and the
\* episode_length entry receives the number of experiences fed.
C15_Amended ==
    [][CommitStep =>
        LET p == _mem_cyclic_pointer
        IN  /\ memory'["episode_length"].var[p] = Len(committed'[p])
            /\ \A e \in Slots \ {p} :
                   memory'["episode_length"].var[e] = memory["episode_length"].var[e]
            /\ \A i \in 1 .. 4 :
                   /\ Leaves(memory')[i][p] = Leaves(buffer')[i]
                   /\ \A e \in Slots \ {p} : Leaves(memory')[i][e] = Leaves(memory)[i][e]]_vars

\* A slot written for the first time holds, past the rows of its episode, a
\* row left in the buffer by an earlier episode.
C15_Witness ==
    /\ Committed
    /\ commits <= memory_shape[1]
    /\ Len(committed[ret.pre.pointer]) < max_episode_length
    /\ memory["action"].var[ret.pre.pointer][Len(committed[ret.pre.pointer])] # 0

\* C16 (only commit mutates committed state): a call in which _add_episode
\* does not run (an add_experience that stores no episode, a get_episode, a
\* sample_random_batch, returning or raising) leaves the store, episode_length,
\* the used size (the variable and the Python-side copy), the cyclic pointer
\* and the episode count as they are; get_episode and sample_random_batch
\* also leave local_step and the buffer as they are.
C16_OnlyCommitMutates ==
    [][(pc = "alive" /\ commits' = commits) =>
        /\ UNCHANGED <<memory, _mem_current_size, current_mem_size,
                       _mem_cyclic_pointer, episode>>
        /\ ret'.op \in {"get_episode", "sample_random_batch"} =>
               UNCHANGED <<local_step, buffer>>]_vars

\* A batch has been sampled from a store of two episodes or more while an
\* episode is being staged.
C16_Witness ==
    /\ Sampled
    /\ commits >= 2
    /\ local_step >= 1

\* C17 (episode count): self.episode is 0 when the constructor returns and
\* equals the number of commits made since, whatever other calls were made.
C17_EpisodeCount ==
    Alive =>
        /\ episode = commits
        /\ ret.op = "__init__" => episode = 0

\* Three episodes were committed and the last call was a query.
C17_Witness ==
    /\ Alive
    /\ episode >= 3
    /\ ret.op \in {"get_episode", "sample_random_batch"}

\* C19 (stored indices are reused): the index list a successful
\* sample_random_batch returns is the list it leaves in the batch-indices
\* variable and the list the returned SARS batch is gathered at; a
\* sample_random_batch that raises leaves the batch-indices variable as it was.
C19_StoredIndicesReused ==
    [][(pc = "alive" /\ ret'.op = "sample_random_batch") =>
        IF ret'.status = "ok"
        THEN /\ ret'.value.idx = _batch_indices'
             /\ ret'.value.output_feeder = _get_sampled_sars_batch_op(_batch_indices')
        ELSE UNCHANGED _batch_indices]_vars

\* C20 (staging write stays in bounds): every add_experience call writes a
\* buffer row local_step < max_episode_length and returns, and leaves
\* local_step a row of the buffer for the next call.
C20_StagingInBounds ==
    Alive =>
        /\ local_step < max_episode_length
        /\ ret.op = "add_experience" =>
               /\ ret.pre.local_step < max_episode_length
               /\ ret.status = "ok"

\* A sample_random_batch call run in two steps has just returned a batch.
SampledInSteps == Sampled /\ sampler.at = "returned"

\* Row i of a SARS batch.
Sars(batch, i) ==
    <<batch["state"].external[i], batch["action"][i], batch["reward"][i],
      batch["done"][i], batch["state_next"].external[i]>>

\* C18 (sample/gather atomicity): sample_random_batch draws the indices and
\* gathers the batch in two steps without a lock.  When no add_experience call
\* runs between the two steps, the batch returned is the one the store held at
\* the indices when they were drawn; with calls in between, that still holds
\* for every pair whose slot no commit has written since, so only a commit to
\* a sampled slot can make a pair differ, and C18_Witness is a state where
\* one does.
C18_SampleGatherAtomicity ==
    SampledInSteps =>
        /\ ret.value.idx = sampler.idx
        /\ fed = sampler.fed => ret.value.output_feeder = sampler.output_feeder
        /\ \A i \in DOMAIN sampler.idx :
               committed[sampler.idx[i][1]] = sampler.committed[sampler.idx[i][1]] =>
                   Sars(ret.value.output_feeder, i) = Sars(sampler.output_feeder, i)

\* A commit to slot e ran between the two steps: the batch has a pair (e, s)
\* drawn with s <= episode_length[e] - 1 whose s now exceeds
\* episode_length[e] - 1 and whose `state` is the state_next of the last
\* experience of the new episode, not what the slot held when it was drawn.
C18_Witness ==
    /\ SampledInSteps
    /\ \E i \in DOMAIN sampler.idx :
        LET e == sampler.idx[i][1]
            s == sampler.idx[i][2]
        IN  /\ committed[e] # sampler.committed[e]
            /\ s <= sampler.episode_length[e] - 1
            /\ s > memory["episode_length"].var[e] - 1
            /\ ret.value.output_feeder["state"].external[i]
                   = committed[e][Len(committed[e])].state_next.external
            /\ Sars(ret.value.output_feeder, i) # Sars(sampler.output_feeder, i)

\* C21 (sampled slots are committed): every episode number a successful
\* sample_random_batch returns names a slot that some commit has written,
\* never a slot still holding the initial zeros.
C21_SampledSlotsCommitted ==
    Sampled =>
        \A i \in DOMAIN ret.value.idx : ret.value.idx[i][1] \in WrittenSlots

\* A batch is sampled while a slot is still unwritten.
C21_Witness ==
    /\ Sampled
    /\ max_episode_length >= 2
    /\ WrittenSlots # Slots

\* C22 (never-sampled slots): sample_random_batch returns only episode
\* numbers in [1, slots - 2]; slot 0 and slot slots - 1 are written by commits
\* (the first and the slots-th) but are never returned.
C22_NeverSampledSlots ==
    Alive =>
        /\ Sampled =>
               \A i \in DOMAIN ret.value.idx :
                   /\ 1 <= ret.value.idx[i][1]
                   /\ ret.value.idx[i][1] <= memory_shape[1] - 2
        /\ commits >= 1 => 0 \in WrittenSlots
        /\ commits >= memory_shape[1] => memory_shape[1] - 1 \in WrittenSlots

\* Every slot, the first and the last included, was written, and the batch
\* sampled holds the last but one slot.
C22_Witness ==
    /\ Sampled
    /\ max_episode_length >= 2
    /\ WrittenSlots = Slots
    /\ \E i \in DOMAIN ret.value.idx : ret.value.idx[i][1] = memory_shape[1] - 2

====
